---------------------------- MODULE Spec2Model ----------------------------
(***************************************************************************)
(* Model of app.py, the People Analytics dashboard: the loader             *)
(* load_and_prepare_data, the sidebar filter pipeline that narrows         *)
(* df_filtered, the KPI computation, the chart steps that add columns to   *)
(* df_filtered, and the table / CSV / Excel export steps.                  *)
(*                                                                         *)
(* Text is modelled at character level where the code works on characters  *)
(* (column-name normalisation, Sexo clean-up, name search, address         *)
(* pattern): such text is a tuple of one-character strings.  A character   *)
(* outside ASCII is written as an atom in brackets, "[c-cedilla]".         *)
(* Money is counted in centavos, so that 5000.50 is 500050.                *)
(***************************************************************************)
EXTENDS Integers, Sequences, FiniteSets, TLC

(***************************************************************************)
(* Bounds of the model.                                                    *)
(***************************************************************************)
MaxRows == 2

(***************************************************************************)
(* State.                                                                  *)
(***************************************************************************)
VARIABLES
    pc,              \* the line the script is at
    file,            \* BaseFuncionarios.xlsx on disk
    cache,           \* st.cache_data entry of load_and_prepare_data
    df,              \* the normalised table
    success,
    df_filtered,     \* the filtered view
    selected_area,
    selected_nivel,
    selected_cargo,
    sal_range,
    selected_status,
    search_query,
    kpis,            \* the values shown by st.metric
    df_display,      \* the table shown in the expander
    csv_bytes,
    excel_buffer,
    error            \* the exception that ended the run, if any

outputs == <<kpis, df_display, csv_bytes, excel_buffer>>

widgets == <<selected_area, selected_nivel, selected_cargo, sal_range,
             selected_status, search_query>>

vars == <<pc, file, cache, df, success, df_filtered, widgets, outputs, error>>

(***************************************************************************)
(* Characters.                                                             *)
(***************************************************************************)
UpperCase == {"A", "B", "C", "D", "E", "F", "G", "H", "I", "J", "K", "L", "M",
              "N", "O", "P", "Q", "R", "S", "T", "U", "V", "W", "X", "Y", "Z"}
LowerCase == {"a", "b", "c", "d", "e", "f", "g", "h", "i", "j", "k", "l", "m",
              "n", "o", "p", "q", "r", "s", "t", "u", "v", "w", "x", "y", "z"}
Digits == {"0", "1", "2", "3", "4", "5", "6", "7", "8", "9"}
AsciiPunct == {" ", "_", "-", ",", ".", "/"}
Ascii == UpperCase \cup LowerCase \cup Digits \cup AsciiPunct
Whitespace == {" "}

ToLower == "A" :> "a" @@ "B" :> "b" @@ "C" :> "c" @@ "D" :> "d" @@ "E" :> "e"
        @@ "F" :> "f" @@ "G" :> "g" @@ "H" :> "h" @@ "I" :> "i" @@ "J" :> "j"
        @@ "K" :> "k" @@ "L" :> "l" @@ "M" :> "m" @@ "N" :> "n" @@ "O" :> "o"
        @@ "P" :> "p" @@ "Q" :> "q" @@ "R" :> "r" @@ "S" :> "s" @@ "T" :> "t"
        @@ "U" :> "u" @@ "V" :> "v" @@ "W" :> "w" @@ "X" :> "x" @@ "Y" :> "y"
        @@ "Z" :> "z"

Lower(c) == IF c \in UpperCase THEN ToLower[c] ELSE c

Upper(c) == IF c \in LowerCase
            THEN CHOOSE u \in UpperCase : ToLower[u] = c
            ELSE c

\* Unicode NFKD of one character: an accented letter becomes its base letter
\* followed by a combining mark; every other character is itself.
NFKD(c) ==
    CASE c = "[A-acute]"   -> <<"A", "[combining-acute]">>
      [] c = "[a-acute]"   -> <<"a", "[combining-acute]">>
      [] c = "[i-acute]"   -> <<"i", "[combining-acute]">>
      [] c = "[a-tilde]"   -> <<"a", "[combining-tilde]">>
      [] c = "[c-cedilla]" -> <<"c", "[combining-cedilla]">>
      [] OTHER             -> <<c>>

\* the concatenation of a sequence of sequences
RECURSIVE Flatten(_)
Flatten(ss) == IF ss = <<>> THEN <<>> ELSE Head(ss) \o Flatten(Tail(ss))

RECURSIVE Join(_)
Join(s) == IF s = <<>> THEN "" ELSE Head(s) \o Join(Tail(s))

\* .str.encode('ascii', 'ignore').str.decode('utf-8')
AsciiIgnore(c) == IF c \in Ascii THEN <<c>> ELSE <<>>
\* .str.replace(' ', '_')
SpaceToUnderscore(c) == IF c = " " THEN <<"_">> ELSE <<c>>
\* .str.replace('[^a-zA-Z0-9_]', '', regex=True)
KeepWordChar(c) ==
    IF c \in UpperCase \cup LowerCase \cup Digits \cup {"_"} THEN <<c>> ELSE <<>>

\* The normalised name of one column (app.py line 45), as a string.
NormalizeColumn(h) ==
    LET decomposed == Flatten([i \in 1..Len(h) |-> NFKD(h[i])])
        encoded    == Flatten([i \in 1..Len(decomposed) |-> AsciiIgnore(decomposed[i])])
        underlined == Flatten([i \in 1..Len(encoded) |-> SpaceToUnderscore(encoded[i])])
        cleaned    == Flatten([i \in 1..Len(underlined) |-> KeepWordChar(underlined[i])])
    IN  Join(cleaned)

(***************************************************************************)
(* Cells.  A cell read from the sheet is a number, a date, text or blank.  *)
(***************************************************************************)
NaN == [k |-> "nan"]
Str(s) == [k |-> "str", v |-> s]          \* a string, held as a TLA+ string
Txt(s) == [k |-> "txt", v |-> s]          \* a string, held as characters
Num(n) == [k |-> "num", v |-> n]
Date(y, m, d) == [k |-> "date", v |-> <<y, m, d>>]

notna(c) == c.k # "nan"

(***************************************************************************)
(* Data frames: a set of column names and, per index label, a row that     *)
(* maps each column to a cell.  Boolean indexing keeps the index labels.   *)
(***************************************************************************)
DataFrame(cols, rows) == [columns |-> cols, rows |-> rows]

\* pd.DataFrame()
EmptyFrame == DataFrame({}, << >>)

Index(f) == DOMAIN f.rows

\* DataFrame.empty: some axis has length 0
IsEmpty(f) == f.columns = {} \/ Index(f) = {}

\* f[mask], the rows of f whose index label is in mask
Keep(f, mask) == DataFrame(f.columns, [i \in mask \cap Index(f) |-> f.rows[i]])

\* f[c] = series, a column assignment; series maps index labels to cells
WithColumn(f, c, series) ==
    DataFrame(f.columns \cup {c},
              [i \in Index(f) |->
                 [x \in f.columns \cup {c} |->
                    IF x = c THEN series[i] ELSE f.rows[i][x]]])

\* f.drop(columns=cs, errors='ignore')
DropColumns(f, cs) ==
    DataFrame(f.columns \ cs,
              [i \in Index(f) |-> [x \in f.columns \ cs |-> f.rows[i][x]]])

\* f[c].unique()
Unique(f, c) == {f.rows[i][c] : i \in Index(f)}


(***************************************************************************)
(* Dates.                                                                  *)
(***************************************************************************)
\* Days from 1970-01-01 to the civil date <<y, m, d>> (proleptic Gregorian).
DayNumber(dt) ==
    LET y   == IF dt[2] <= 2 THEN dt[1] - 1 ELSE dt[1]
        mp  == IF dt[2] > 2 THEN dt[2] - 3 ELSE dt[2] + 9
        era == y \div 400
        yoe == y - era * 400
        doy == (153 * mp + 2) \div 5 + dt[3] - 1
        doe == yoe * 365 + yoe \div 4 - yoe \div 100 + doy
    IN  era * 146097 + doe - 719468

\* date.today(), fixed for a session of the model
today == <<2025, 8, 28>>

\* n / d truncated toward zero, as astype(int) and int() truncate
Trunc(n, d) == IF n >= 0 THEN n \div d ELSE -((-n) \div d)

(***************************************************************************)
(* The input: BaseFuncionarios.xlsx.                                       *)
(***************************************************************************)
HNome == <<"N", "o", "m", "e", " ", "C", "o", "m", "p", "l", "e", "t", "o">>
HArea == <<"[A-acute]", "r", "e", "a">>
HNivel == <<"N", "[i-acute]", "v", "e", "l">>
HCargo == <<"C", "a", "r", "g", "o">>
HSalario == <<"S", "a", "l", "[a-acute]", "r", "i", "o", " ", "B", "a", "s", "e">>
HNascimento == <<"D", "a", "t", "a", " ", "d", "e", " ",
                 "N", "a", "s", "c", "i", "m", "e", "n", "t", "o">>
HContratacao == <<"D", "a", "t", "a", " ", "d", "e", " ",
                  "C", "o", "n", "t", "r", "a", "t", "a", "[c-cedilla]", "[a-tilde]", "o">>
HDemissao == <<"D", "a", "t", "a", " ", "d", "e", " ",
               "D", "e", "m", "i", "s", "s", "[a-tilde]", "o">>
HSexo == <<"S", "e", "x", "o">>
HEndereco == <<"E", "n", "d", "e", "r", "e", "[c-cedilla]", "o">>

AllHeaders == {HNome, HArea, HNivel, HCargo, HSalario, HNascimento,
               HContratacao, HDemissao, HSexo, HEndereco}

\* The sheets considered: every column present, or exactly one column absent.
HeaderSets == {AllHeaders} \cup {AllHeaders \ {h} : h \in AllHeaders}

SheetRow(nome, area, nivel, cargo, salario, nasc, contr, dem, sexo, ender) ==
    HNome :> nome @@ HArea :> area @@ HNivel :> nivel @@ HCargo :> cargo
    @@ HSalario :> salario @@ HNascimento :> nasc @@ HContratacao :> contr
    @@ HDemissao :> dem @@ HSexo :> sexo @@ HEndereco :> ender

NotADate == Txt(<<"n", "/", "a">>)

\* The rows a sheet is drawn from.  Date columns hold dates, blanks, or text
\* no date parser accepts; salaries are multiples of 0.50.
Pool ==
    << SheetRow(Txt(<<"A", "n", "a", " ", "S", "i", "l", "v", "a">>),
                Str("Vendas"), Str("Junior"), Str("Analista"), Num(500000),
                Date(1990, 5, 17), Date(2020, 3, 1), NaN,
                Txt(<<"F">>),
                Txt(<<"R", "u", "a", " ", "A", ",", " ", "1", " ", "-", " ", "S", "P">>)),
       SheetRow(Txt(<<"B", "r", "u", "n", "o", " ", "R", "e", "i", "s">>),
                Str("Vendas"), Str("Senior"), Str("Gerente"), Num(700000),
                Date(1985, 1, 10), Date(2025, 2, 3), Date(2025, 6, 30),
                Txt(<<" ", "m">>),
                Txt(<<"A", "v", " ", "B", " ", "-", " ", "R", "J", ",">>)),
       SheetRow(Txt(<<"M", "A", "R", "I", "A", "N", "A", " ", "C", "o", "s", "t", "a">>),
                Str("Operacoes"), Str("Junior"), Str("Analista"), Num(600050),
                Date(2001, 12, 1), NotADate, NotADate,
                Txt(<<"F", "e", "m", "i", "n", "i", "n", "o">>),
                Txt(<<"s", "e", "m", " ", "e", "n", "d", "e", "r", "e", "c", "o">>)),
       SheetRow(NaN,
                Str("Operacoes"), Str("Senior"), NaN, NaN,
                Date(1960, 8, 29), NaN, Date(2024, 1, 15),
                NaN,
                NaN),
       SheetRow(Txt(<<"C", "a", "r", "l", "a", " ", "D", "i", "a", "s">>),
                Str("Vendas"), Str("Junior"), Str("Analista"), Num(500000),
                NaN, Date(2022, 7, 11), NaN,
                Txt(<<"F">>),
                Txt(<<"R", "u", "a", " ", "A", ",", " ", "1", " ", "-", " ", "S", "P">>)) >>

\* Row order plays no part in any step, so sheets are drawn up to order.
RowChoices ==
    UNION {{s \in [1..n -> 1..Len(Pool)] :
              \A i \in 1..n, j \in 1..n : i <= j => s[i] <= s[j]} : n \in 0..MaxRows}

Sheet(h, s) == [i \in 1..Len(s) |-> [x \in h |-> Pool[s[i]][x]]]

InputFiles ==
    {[exists |-> FALSE, readable |-> FALSE, header |-> {}, rows |-> << >>],
     [exists |-> TRUE, readable |-> FALSE, header |-> {}, rows |-> << >>]}
    \cup {[exists |-> TRUE, readable |-> TRUE, header |-> h, rows |-> Sheet(h, s)] :
            h \in HeaderSets, s \in RowChoices}

(***************************************************************************)
(* load_and_prepare_data.                                                  *)
(***************************************************************************)
\* pd.read_excel: the sheet as a frame, index labels 1..n standing for 0..n-1
read_excel(f) == DataFrame(f.header, f.rows)

\* df.columns = df.columns.str.normalize(...)...
NormalizeColumns(f) ==
    LET cols == {NormalizeColumn(h) : h \in f.columns}
        orig == [c \in cols |-> CHOOSE h \in f.columns : NormalizeColumn(h) = c]
    IN  DataFrame(cols, [i \in Index(f) |-> [c \in cols |-> f.rows[i][orig[c]]]])

date_cols == {"Data_de_Nascimento", "Data_de_Contratacao", "Data_de_Demissao"}

\* pd.to_datetime(cell, errors="coerce"): a date stays, anything else is NaT
to_datetime(c) == IF c.k = "date" THEN c ELSE NaN

CoerceDates(f) ==
    DataFrame(f.columns,
              [i \in Index(f) |->
                 [c \in f.columns |->
                    IF c \in date_cols THEN to_datetime(f.rows[i][c])
                    ELSE f.rows[i][c]]])

\* ((today - birth).dt.days / 365.25), before the cast
AgeQuarterDays(birth) == (DayNumber(today) - DayNumber(birth.v)) * 4

\* .astype(int) raises on a column that holds NaN
IdadeRaises(f) ==
    /\ "Data_de_Nascimento" \in f.columns
    /\ \E i \in Index(f) : ~notna(f.rows[i]["Data_de_Nascimento"])

Idade(row) == Num(Trunc(AgeQuarterDays(row["Data_de_Nascimento"]), 1461))

WithIdade(f) ==
    IF "Data_de_Nascimento" \in f.columns
    THEN WithColumn(f, "Idade", [i \in Index(f) |-> Idade(f.rows[i])])
    ELSE f

\* np.where with its two outcomes exchanged
StatusSwapped(row) ==
    IF notna(row["Data_de_Demissao"]) THEN Str("Ativo") ELSE Str("Desligado")

StatusFromDemissao(row) ==
    IF notna(row["Data_de_Demissao"]) THEN Str("Desligado") ELSE Str("Ativo")

StatusAtivo(row) == Str("Ativo")

WithStatus(f) ==
    IF "Data_de_Demissao" \in f.columns
    THEN WithColumn(f, "Status", [i \in Index(f) |-> StatusFromDemissao(f.rows[i])])
    ELSE WithColumn(f, "Status", [i \in Index(f) |-> StatusAtivo(f.rows[i])])

\* .astype(str): a blank cell becomes the text "nan"
AsTypeStr(c) == IF c.k = "txt" THEN c.v ELSE <<"n", "a", "n">>

RECURSIVE LStrip(_)
LStrip(s) == IF s # <<>> /\ Head(s) \in Whitespace THEN LStrip(Tail(s)) ELSE s
RECURSIVE RStrip(_)
RStrip(s) == IF s # <<>> /\ s[Len(s)] \in Whitespace
             THEN RStrip(SubSeq(s, 1, Len(s) - 1)) ELSE s
Strip(s) == RStrip(LStrip(s))

UpperStr(s) == [i \in 1..Len(s) |-> Upper(s[i])]

Sexo(row) ==
    LET x == Strip(UpperStr(AsTypeStr(row["Sexo"])))
    IN  IF x = <<"M">> THEN Str("M") ELSE IF x = <<"F">> THEN Str("F") ELSE NaN

WithSexo(f) ==
    IF "Sexo" \in f.columns
    THEN WithColumn(f, "Sexo", [i \in Index(f) |-> Sexo(f.rows[i])])
    ELSE f

Failure == [df |-> EmptyFrame, success |-> FALSE]

\* the except branch handing back the table as far as it got
load_serving_partial(f) ==
    IF ~f.exists THEN Failure
    ELSE IF ~f.readable THEN Failure
    ELSE LET dated == CoerceDates(NormalizeColumns(read_excel(f)))
         IN  IF IdadeRaises(dated) THEN [df |-> dated, success |-> TRUE]
             ELSE [df |-> WithSexo(WithStatus(WithIdade(dated))), success |-> TRUE]

load_and_prepare_data(f) ==
    IF ~f.exists THEN Failure
    ELSE IF ~f.readable THEN Failure                    \* read_excel raises
    ELSE LET dated == CoerceDates(NormalizeColumns(read_excel(f)))
         IN  IF IdadeRaises(dated) THEN Failure          \* astype(int) raises
             ELSE [df |-> WithSexo(WithStatus(WithIdade(dated))), success |-> TRUE]

(***************************************************************************)
(* The sidebar filters (section 5 of the script).                          *)
(***************************************************************************)
Todos == Str("Todos")

\* what a variable holds before the script assigns it
Unset == [k |-> "unset"]

\* series == value, element by element: NaN equals nothing, itself included
Eq(c, value) == notna(c) /\ notna(value) /\ c = value

\* ["Todos"] + f[c].unique().tolist()
Options(f, c) == {Todos} \cup Unique(f, c)

\* the filter taken from the normalised table instead of the working view
FilterEqOnTable(f, c, selected) ==
    IF selected # Todos
    THEN Keep(df, {i \in Index(df) : Eq(df.rows[i][c], selected)})
    ELSE f

\* if selected != "Todos": f = f[f[c] == selected]
FilterEq(f, c, selected) ==
    IF selected # Todos
    THEN Keep(f, {i \in Index(f) : Eq(f.rows[i][c], selected)})
    ELSE f

\* f["Salario_Base"].dropna()
Salarios(f) == {f.rows[i]["Salario_Base"].v :
                  i \in {j \in Index(f) : notna(f.rows[j]["Salario_Base"])}}

Min(S) == CHOOSE x \in S : \A y \in S : x <= y
Max(S) == CHOOSE x \in S : \A y \in S : x >= y

\* int(x) of an amount, in centavos again
IntReais(x) == Trunc(x, 100) * 100

HasSalarios(f) == "Salario_Base" \in f.columns /\ Salarios(f) # {}

min_sal(f) == IntReais(Min(Salarios(f)))
max_sal(f) == IntReais(Max(Salarios(f)))

Range(lo, hi) == [k |-> "range", lo |-> lo, hi |-> hi]

\* the slider's value when the user leaves it alone
DefaultRange(f) == Range(min_sal(f), max_sal(f))

\* The positions of the slider considered: its ends and the whole-real part
\* of every salary in the view.
SliderStops(f) == {min_sal(f), max_sal(f)} \cup {IntReais(x) : x \in Salarios(f)}
SliderValues(f) ==
    {Range(p[1], p[2]) :
       p \in {q \in SliderStops(f) \X SliderStops(f) : q[1] <= q[2]}}

\* f[(f["Salario_Base"] >= lo) & (f["Salario_Base"] <= hi)]
InRange(c, r) == notna(c) /\ c.v >= r.lo /\ c.v <= r.hi
FilterSalario(f, r) ==
    Keep(f, {i \in Index(f) : InRange(f.rows[i]["Salario_Base"], r)})

\* re.search(pat, s, re.IGNORECASE) for a pattern of letters, digits, spaces
\* and ".", which stands for any character
MatchAt(s, pat, i) ==
    \A j \in 1..Len(pat) : pat[j] = "." \/ Lower(pat[j]) = Lower(s[i + j - 1])
Search(pat, s) == \E i \in 1..(Len(s) - Len(pat) + 1) : MatchAt(s, pat, i)

\* series.str.contains(query, case=False, na=False), one cell
Contains(c, query) == notna(c) /\ Search(query, c.v)

FilterNome(f, query) ==
    Keep(f, {i \in Index(f) : Contains(f.rows[i]["Nome_Completo"], query)})

\* The texts typed into the search box.
Queries == {<< >>, <<"a", "n", "a">>, <<"a", ".", "a">>, <<"r", "e", "i", "s">>}

(***************************************************************************)
(* Number formatting.                                                      *)
(***************************************************************************)
DigitChar(d) == <<"0", "1", "2", "3", "4", "5", "6", "7", "8", "9">>[d + 1]

RECURSIVE NatChars(_)
NatChars(n) == IF n < 10 THEN <<DigitChar(n)>>
               ELSE NatChars(n \div 10) \o <<DigitChar(n % 10)>>

\* the "," option of a format spec: a comma every three digits
RECURSIVE Grouped(_)
Grouped(s) == IF Len(s) <= 3 THEN s
              ELSE Grouped(SubSeq(s, 1, Len(s) - 3)) \o <<",">>
                   \o SubSeq(s, Len(s) - 2, Len(s))

\* str.replace(a, b) for one-character a and b
Replace(s, a, b) == [i \in 1..Len(s) |-> IF s[i] = a THEN b ELSE s[i]]

\* n / d rounded to the nearest integer (n >= 0, d > 0)
RoundDiv(n, d) == (2 * n + d) \div (2 * d)

\* A float: the quotient n / d, or NaN.
Quot(n, d) == [k |-> "quot", n |-> n, d |-> d]

\* f"{x:,.2f}" of an amount of n / d centavos, n >= 0
Format2f(x) ==
    LET c == RoundDiv(x.n, x.d)
    IN  Grouped(NatChars(c \div 100)) \o <<".">>
        \o <<DigitChar((c % 100) \div 10), DigitChar(c % 10)>>

\* f"{x:.1f}" of n / d, n >= 0
Format1f(x) ==
    LET t == RoundDiv(10 * x.n, x.d)
    IN  NatChars(t \div 10) \o <<".">> \o <<DigitChar(t % 10)>>

brl(x) ==
    IF notna(x)
    THEN "R$ " \o Join(Replace(Replace(Replace(Format2f(x), ",", "X"), ".", ","), "X", "."))
    ELSE "R$ nan"

(***************************************************************************)
(* The KPIs (section 7 of the script).                                     *)
(***************************************************************************)
\* the sum of the values of a function with a finite domain
RECURSIVE SumOf(_)
SumOf(fn) == IF DOMAIN fn = {} THEN 0
             ELSE LET x == CHOOSE y \in DOMAIN fn : TRUE
                  IN  fn[x] + SumOf([z \in DOMAIN fn \ {x} |-> fn[z]])

\* len(f[f[c] == value])
CountEq(f, c, value) == Cardinality({i \in Index(f) : Eq(f.rows[i][c], value)})

NotNa(f, c) == {i \in Index(f) : notna(f.rows[i][c])}

\* f[c].sum(): blanks are skipped
Sum(f, c) == SumOf([i \in NotNa(f, c) |-> f.rows[i][c].v])

\* f[c].mean(): blanks are skipped, NaN when nothing is left
Mean(f, c) == IF NotNa(f, c) = {} THEN NaN
              ELSE Quot(Sum(f, c), Cardinality(NotNa(f, c)))

\* len(f[f["Data_de_Contratacao"].dt.year == today.year])
novas_contratacoes(f) ==
    Cardinality({i \in Index(f) :
                   /\ notna(f.rows[i]["Data_de_Contratacao"])
                   /\ f.rows[i]["Data_de_Contratacao"].v[1] = today[1]})

\* the payroll summed over the normalised table instead of the view
folha_sem_filtro(f) ==
    IF "Salario_Base" \in f.columns
    THEN brl(Quot(Sum(df, "Salario_Base") * 12, 1))
    ELSE "N/A"

folha_salarial_anual_fmt(f) ==
    IF "Salario_Base" \in f.columns
    THEN brl(Quot(Sum(f, "Salario_Base") * 12, 1))
    ELSE "N/A"

salario_medio_fmt(f) ==
    IF "Salario_Base" \in f.columns /\ Cardinality(Index(f)) > 0
    THEN brl(Mean(f, "Salario_Base"))
    ELSE "N/A"

idade_media_fmt(f) ==
    IF "Idade" \in f.columns /\ Cardinality(Index(f)) > 0
    THEN IF notna(Mean(f, "Idade"))
         THEN Join(Format1f(Mean(f, "Idade"))) \o " anos"
         ELSE "nan anos"
    ELSE "N/A"

\* Lines 253, 255-256 index the view by a column the code does not test for.
KPIsRaise(f) == "Data_de_Contratacao" \notin f.columns \/ "Sexo" \notin f.columns

KPIValues(f) ==
    [k |-> "kpis",
     headcount_total |-> Cardinality(Index(f)),
     headcount_ativo |-> CountEq(f, "Status", Str("Ativo")),
     novas_contratacoes |-> novas_contratacoes(f),
     total_demissoes |-> CountEq(f, "Status", Str("Desligado")),
     masculino_count |-> CountEq(f, "Sexo", Str("M")),
     feminino_count |-> CountEq(f, "Sexo", Str("F")),
     folha_salarial_anual_fmt |-> folha_salarial_anual_fmt(f),
     salario_medio_fmt |-> salario_medio_fmt(f),
     idade_media_fmt |-> idade_media_fmt(f)]

(***************************************************************************)
(* The charts that write to df_filtered (section 8 of the script).         *)
(***************************************************************************)
\* pd.cut(Idade, bins=[0, 18, 25, 35, 45, 55, 65, 100], labels, right=False)
Faixa_Etaria(row) ==
    LET a == row["Idade"].v
    IN  CASE a >= 0  /\ a < 18  -> Str("0-18")
          [] a >= 18 /\ a < 25  -> Str("19-25")
          [] a >= 25 /\ a < 35  -> Str("26-35")
          [] a >= 35 /\ a < 45  -> Str("36-45")
          [] a >= 45 /\ a < 55  -> Str("46-55")
          [] a >= 55 /\ a < 65  -> Str("56-65")
          [] a >= 65 /\ a < 100 -> Str("65+")
          [] OTHER              -> NaN

WithFaixaEtaria(f) ==
    IF "Idade" \in f.columns
    THEN WithColumn(f, "Faixa_Etaria", [i \in Index(f) |-> Faixa_Etaria(f.rows[i])])
    ELSE f

custo_cols(f) == {"Salario_Base", "Impostos", "Beneficios", "VT", "VR"} \cap f.columns

\* f[custo_cols].sum(axis=1), one row: blanks are skipped
Custo_Total_Mensal(row, cols) ==
    Num(SumOf([c \in {x \in cols : notna(row[x])} |-> row[c].v]))

WithCusto(f) ==
    IF "Custo_Total_Mensal" \notin f.columns
    THEN WithColumn(f, "Custo_Total_Mensal",
                    [i \in Index(f) |-> Custo_Total_Mensal(f.rows[i], custo_cols(f))])
    ELSE f

\* px.sunburst(path=['Nivel', 'Area']) is called once Nivel is found, and
\* rejects a path that names no column of the frame.
SunburstRaises(f) ==
    "Nivel" \in f.columns /\ "Custo_Total_Mensal" \in f.columns /\ "Area" \notin f.columns

\* the column name written at lines 436-438
EnderecoColumn == "Endere[c-cedilla]o"

Outro == Txt(<<"O", "u", "t", "r", "o">>)

\* .str.extract(r'-\s(..),?$') then .fillna("Outro"), one cell
Estado(c) ==
    IF c.k # "txt" THEN Outro
    ELSE LET s == c.v
             n == Len(s)
         IN  IF n >= 5 /\ s[n] = "," /\ s[n - 4] = "-" /\ s[n - 3] \in Whitespace
             THEN Txt(<<s[n - 2], s[n - 1]>>)
             ELSE IF n >= 4 /\ s[n - 3] = "-" /\ s[n - 2] \in Whitespace
             THEN Txt(<<s[n - 1], s[n]>>)
             ELSE Outro

WithEstado(f) ==
    IF EnderecoColumn \in f.columns
    THEN WithColumn(f, "Estado", [i \in Index(f) |-> Estado(f.rows[i][EnderecoColumn])])
    ELSE f

(***************************************************************************)
(* The table and the downloads (section 9 of the script).                  *)
(***************************************************************************)
RECURSIVE Ascending(_)
Ascending(S) == IF S = {} THEN << >>
                ELSE <<Min(S)>> \o Ascending(S \ {Min(S)})

\* What to_csv(index=False) and to_excel(index=False) write: the columns
\* and the rows in order, without the index labels.
Written(f) ==
    [k |-> "file", columns |-> f.columns,
     rows |-> [n \in 1..Cardinality(Index(f)) |-> f.rows[Ascending(Index(f))[n]]]]

TransientColumns == {"Estado", "Faixa_Etaria", "Custo_Total_Mensal"}

df_display_of(f) == DropColumns(f, TransientColumns)

(***************************************************************************)
(* The script, top to bottom.                                              *)
(***************************************************************************)
NoEntry == [k |-> "none"]

StartOfRun ==
    /\ pc = "load"
    /\ df = EmptyFrame
    /\ success = FALSE
    /\ df_filtered = EmptyFrame
    /\ selected_area = Unset
    /\ selected_nivel = Unset
    /\ selected_cargo = Unset
    /\ sal_range = Unset
    /\ selected_status = Unset
    /\ search_query = Unset
    /\ kpis = Unset
    /\ df_display = Unset
    /\ csv_bytes = Unset
    /\ excel_buffer = Unset
    /\ error = "none"

Init ==
    /\ file \in InputFiles
    /\ cache = NoEntry
    /\ StartOfRun

\* Lines 131-134: the cached load, then the st.stop() guard.
Load ==
    /\ pc = "load"
    /\ LET r == IF cache = NoEntry THEN load_and_prepare_data(file) ELSE cache.v
       IN  /\ cache' = [k |-> "entry", v |-> r]
           /\ df' = r.df
           /\ success' = r.success
           /\ pc' = IF ~r.success \/ IsEmpty(r.df) THEN "stopped" ELSE "area"
    /\ UNCHANGED <<file, df_filtered, widgets, outputs, error>>

\* Lines 150-157: df_filtered = df.copy(), then the Area select box.
SelectArea ==
    /\ pc = "area"
    /\ IF "Area" \in df.columns
       THEN \E sel \in Options(df, "Area") :
              /\ selected_area' = sel
              /\ df_filtered' = FilterEq(df, "Area", sel)
       ELSE /\ selected_area' = Unset
            /\ df_filtered' = df
    /\ pc' = "nivel"
    /\ UNCHANGED <<file, cache, df, success, selected_nivel, selected_cargo,
                   sal_range, selected_status, search_query, outputs, error>>

\* Lines 159-164.
SelectNivel ==
    /\ pc = "nivel"
    /\ IF "Nivel" \in df_filtered.columns
       THEN \E sel \in Options(df_filtered, "Nivel") :
              /\ selected_nivel' = sel
              /\ df_filtered' = FilterEq(df_filtered, "Nivel", sel)
       ELSE UNCHANGED <<selected_nivel, df_filtered>>
    /\ pc' = "cargo"
    /\ UNCHANGED <<file, cache, df, success, selected_area, selected_cargo,
                   sal_range, selected_status, search_query, outputs, error>>

\* Lines 166-171.
SelectCargo ==
    /\ pc = "cargo"
    /\ IF "Cargo" \in df_filtered.columns
       THEN \E sel \in Options(df_filtered, "Cargo") :
              /\ selected_cargo' = sel
              /\ df_filtered' = FilterEq(df_filtered, "Cargo", sel)
       ELSE UNCHANGED <<selected_cargo, df_filtered>>
    /\ pc' = "salario"
    /\ UNCHANGED <<file, cache, df, success, selected_area, selected_nivel,
                   sal_range, selected_status, search_query, outputs, error>>

\* Lines 173-178.
SlideSalario ==
    /\ pc = "salario"
    /\ IF HasSalarios(df_filtered)
       THEN \E r \in SliderValues(df_filtered) :
              /\ sal_range' = r
              /\ df_filtered' = FilterSalario(df_filtered, r)
       ELSE UNCHANGED <<sal_range, df_filtered>>
    /\ pc' = "status"
    /\ UNCHANGED <<file, cache, df, success, selected_area, selected_nivel,
                   selected_cargo, selected_status, search_query, outputs, error>>

\* Lines 180-185.
SelectStatus ==
    /\ pc = "status"
    /\ IF "Status" \in df_filtered.columns
       THEN \E sel \in Options(df_filtered, "Status") :
              /\ selected_status' = sel
              /\ df_filtered' = FilterEq(df_filtered, "Status", sel)
       ELSE UNCHANGED <<selected_status, df_filtered>>
    /\ pc' = "search"
    /\ UNCHANGED <<file, cache, df, success, selected_area, selected_nivel,
                   selected_cargo, sal_range, search_query, outputs, error>>

\* Lines 187-191: df_filtered["Nome_Completo"] raises KeyError when the
\* column is absent.
SearchNome ==
    /\ pc = "search"
    /\ \E q \in Queries :
         /\ search_query' = Txt(q)
         /\ IF q = << >>
            THEN pc' = "kpis" /\ UNCHANGED <<df_filtered, error>>
            ELSE IF "Nome_Completo" \notin df_filtered.columns
            THEN pc' = "raised" /\ error' = "KeyError" /\ UNCHANGED df_filtered
            ELSE /\ df_filtered' = FilterNome(df_filtered, q)
                 /\ pc' = "kpis"
                 /\ UNCHANGED error
    /\ UNCHANGED <<file, cache, df, success, selected_area, selected_nivel,
                   selected_cargo, sal_range, selected_status, outputs>>

\* Lines 250-277.
KPIs ==
    /\ pc = "kpis"
    /\ IF KPIsRaise(df_filtered)
       THEN pc' = "raised" /\ error' = "KeyError" /\ UNCHANGED kpis
       ELSE pc' = "charts" /\ kpis' = KPIValues(df_filtered) /\ UNCHANGED error
    /\ UNCHANGED <<file, cache, df, success, df_filtered, widgets,
                   df_display, csv_bytes, excel_buffer>>

\* the chart columns assigned on the normalised table as well
ChartsOnTable ==
    /\ pc = "charts"
    /\ LET costed == WithCusto(WithFaixaEtaria(df_filtered))
       IN  IF SunburstRaises(costed)
           THEN df_filtered' = costed /\ pc' = "raised" /\ error' = "ValueError"
           ELSE df_filtered' = WithEstado(costed) /\ pc' = "table" /\ UNCHANGED error
    /\ df' = WithEstado(WithCusto(WithFaixaEtaria(df)))
    /\ UNCHANGED <<file, cache, success, widgets, outputs>>

\* Lines 303-464: of the charts, the age histogram, the cost sunburst and
\* the map assign columns of df_filtered.
Charts ==
    /\ pc = "charts"
    /\ LET costed == WithCusto(WithFaixaEtaria(df_filtered))
       IN  IF SunburstRaises(costed)
           THEN df_filtered' = costed /\ pc' = "raised" /\ error' = "ValueError"
           ELSE df_filtered' = WithEstado(costed) /\ pc' = "table" /\ UNCHANGED error
    /\ UNCHANGED <<file, cache, df, success, widgets, outputs>>

\* Lines 468-501.
TableAndDownloads ==
    /\ pc = "table"
    /\ df_display' = IF ~IsEmpty(df_filtered) THEN df_display_of(df_filtered) ELSE Unset
    /\ csv_bytes' = IF ~IsEmpty(df_filtered) THEN Written(df_filtered) ELSE Unset
    /\ excel_buffer' = Written(df_filtered)
    /\ pc' = "done"
    /\ UNCHANGED <<file, cache, df, success, df_filtered, widgets, kpis, error>>

\* A widget change, or a reload of the page: the script runs again from the
\* top, with the cache kept.
Rerun ==
    /\ pc \in {"stopped", "raised", "done"}
    /\ pc' = "load"
    /\ df' = EmptyFrame
    /\ success' = FALSE
    /\ df_filtered' = EmptyFrame
    /\ selected_area' = Unset
    /\ selected_nivel' = Unset
    /\ selected_cargo' = Unset
    /\ sal_range' = Unset
    /\ selected_status' = Unset
    /\ search_query' = Unset
    /\ kpis' = Unset
    /\ df_display' = Unset
    /\ csv_bytes' = Unset
    /\ excel_buffer' = Unset
    /\ error' = "none"
    /\ UNCHANGED <<file, cache>>

Next ==
    \/ Load
    \/ SelectArea
    \/ SelectNivel
    \/ SelectCargo
    \/ SlideSalario
    \/ SelectStatus
    \/ SearchNome
    \/ KPIs
    \/ Charts
    \/ TableAndDownloads
    \/ Rerun

Spec == Init /\ [][Next]_vars

(***************************************************************************)
(* Properties.                                                             *)
(***************************************************************************)
NothingRendered ==
    /\ df_filtered = EmptyFrame
    /\ kpis = Unset
    /\ df_display = Unset
    /\ csv_bytes = Unset
    /\ excel_buffer = Unset

\* Every preparation step of the loader has been applied to the sheet f.
FullyPrepared(t, f) ==
    /\ t.columns = {NormalizeColumn(h) : h \in f.header} \cup {"Status"}
                   \cup (IF HNascimento \in f.header THEN {"Idade"} ELSE {})
    /\ Index(t) = DOMAIN f.rows
    /\ \A i \in Index(t) :
         /\ \A c \in date_cols \cap t.columns : t.rows[i][c].k \in {"date", "nan"}
         /\ t.rows[i]["Status"] \in {Str("Ativo"), Str("Desligado")}
         /\ "Idade" \in t.columns => t.rows[i]["Idade"].k = "num"
         /\ "Sexo" \in t.columns => t.rows[i]["Sexo"] \in {Str("M"), Str("F"), NaN}

\* C1: once the load has returned, a missing file, an unreadable file or a
\* failed load leaves an empty table with success = FALSE; with
\* success = FALSE or an empty table the script has stopped with nothing
\* filtered, measured, charted or exported; and whenever the script is past
\* the guard, success = TRUE and the table went through every preparation
\* step.
C1_LoadFailsClosed ==
    pc # "load" =>
      /\ (~file.exists \/ ~file.readable \/ ~success) => (df = EmptyFrame /\ ~success)
      /\ (~success \/ IsEmpty(df)) => (pc = "stopped" /\ NothingRendered)
      /\ success => FullyPrepared(df, file)
      /\ pc # "stopped" => success

\* C1 witness: a readable sheet with rows whose preparation raised, and the
\* script stopped at the guard.
C1_Witness ==
    /\ pc = "stopped"
    /\ file.exists /\ file.readable /\ file.rows # << >>
    /\ ~success
    /\ df = EmptyFrame

\* C7: after a successful load a row is "Desligado" exactly when the
\* termination-date column exists and the row's coerced termination date is
\* not null, and "Ativo" otherwise; without the column every row is "Ativo".
C7_StatusIffDemissao ==
    success =>
      \A i \in Index(df) :
        /\ df.rows[i]["Status"] \in {Str("Ativo"), Str("Desligado")}
        /\ df.rows[i]["Status"] = Str("Desligado")
             <=> /\ "Data_de_Demissao" \in df.columns
                 /\ notna(df.rows[i]["Data_de_Demissao"])
        /\ "Data_de_Demissao" \in df.columns =>
             (notna(df.rows[i]["Data_de_Demissao"]) <=> file.rows[i][HDemissao].k = "date")

\* C7 witness: a loaded table with a terminated row, and an active row whose
\* termination cell held text that is no date.
C7_Witness ==
    /\ success
    /\ \E i \in Index(df) : df.rows[i]["Status"] = Str("Desligado")
    /\ \E i \in Index(df) :
         /\ HDemissao \in file.header
         /\ file.rows[i][HDemissao] = NotADate
         /\ df.rows[i]["Status"] = Str("Ativo")

\* The base salaries of the rows of the normalised table labelled in S.
PayrollOf(S) ==
    SumOf([i \in {j \in S : notna(df.rows[j]["Salario_Base"])} |->
             df.rows[i]["Salario_Base"].v])

\* C8: the annual payroll shown is 12 times the base salaries of exactly the
\* rows in the filtered view, so a row a filter removed adds nothing to it;
\* it is "N/A" when the table has no salary column.
C8_FolhaAnual ==
    kpis # Unset =>
      kpis.folha_salarial_anual_fmt =
        IF "Salario_Base" \in df.columns
        THEN brl(Quot(12 * PayrollOf(Index(df_filtered)), 1))
        ELSE "N/A"

\* C8 witness: KPIs computed on a view from which a filter removed a row
\* with a salary, while a row with a salary remains.
C8_Witness ==
    /\ kpis # Unset
    /\ "Salario_Base" \in df.columns
    /\ PayrollOf(Index(df) \ Index(df_filtered)) > 0
    /\ PayrollOf(Index(df_filtered)) > 0

\* The user left every control as it first shows.
IdentityParameters ==
    /\ selected_area \in {Todos, Unset}
    /\ selected_nivel \in {Todos, Unset}
    /\ selected_cargo \in {Todos, Unset}
    /\ selected_status \in {Todos, Unset}
    /\ IF HasSalarios(df) THEN sal_range = DefaultRange(df) ELSE sal_range = Unset
    /\ search_query = Txt(<< >>)

\* C2: with every select box on "Todos", the slider at its default extent
\* and an empty search, the filtered view holds exactly the rows of the
\* normalised table.
C2_IdentityFilter ==
    (pc = "kpis" /\ IdentityParameters) => df_filtered = df

\* A select box's choices on the normalised table; Unset when the column is
\* absent and the filter is skipped.
Choices(c) == IF c \in df.columns THEN Options(df, c) ELSE {Unset}

Apply(f, c, value) == IF value = Unset THEN f ELSE FilterEq(f, c, value)

AreaNivelCargo(t, a, n, c) == Apply(Apply(Apply(t, "Area", a), "Nivel", n), "Cargo", c)
CargoNivelArea(t, a, n, c) == Apply(Apply(Apply(t, "Cargo", c), "Nivel", n), "Area", a)

Idempotent(f, c, value) == Apply(Apply(f, c, value), c, value) = Apply(f, c, value)

\* C3: for every table and every department, level and role value, the
\* three equality filters give the same rows in the order department,
\* level, role as in the order role, level, department, and a filter applied
\* again to its own output changes nothing; the view the script holds after
\* its three select boxes is the one the reverse order gives.
C3_CommutativeIdempotent ==
    /\ pc = "area" =>
         \A a \in Choices("Area"), n \in Choices("Nivel"), c \in Choices("Cargo") :
           /\ AreaNivelCargo(df, a, n, c) = CargoNivelArea(df, a, n, c)
           /\ Idempotent(df, "Area", a)
           /\ Idempotent(Apply(df, "Area", a), "Nivel", n)
           /\ Idempotent(Apply(Apply(df, "Area", a), "Nivel", n), "Cargo", c)
    /\ pc = "salario" =>
         /\ df_filtered = CargoNivelArea(df, selected_area, selected_nivel, selected_cargo)
         /\ Apply(df_filtered, "Area", selected_area) = df_filtered
         /\ Apply(df_filtered, "Nivel", selected_nivel) = df_filtered
         /\ Apply(df_filtered, "Cargo", selected_cargo) = df_filtered

\* C3 witness: the three select boxes each set to a value, leaving some rows
\* and removing others.
C3_Witness ==
    /\ pc = "salario"
    /\ selected_area \notin {Todos, Unset}
    /\ selected_nivel \notin {Todos, Unset}
    /\ selected_cargo \notin {Todos, Unset}
    /\ Index(df_filtered) # {}
    /\ Index(df_filtered) # Index(df)

\* v holds rows of t under their labels, each with t's cells in t's columns.
ViewOf(v, t) ==
    /\ Index(v) \subseteq Index(t)
    /\ t.columns \subseteq v.columns
    /\ \A i \in Index(v) : \A c \in t.columns : v.rows[i][c] = t.rows[i][c]

\* C4: over any sequence of runs, no step of a run changes the normalised
\* table, the cached table is the same in every run, and from the first
\* filter on the view holds only rows of the normalised table, unaltered in
\* its columns, whatever columns the charts add to the view.
C4_TableUntouched ==
    [][/\ cache # NoEntry => cache' = cache
       /\ (pc # "load" /\ pc' # "load") => df' = df
       /\ pc' \notin {"load", "area", "stopped"} =>
            (ViewOf(df_filtered', df') /\ df' = cache'.v.df)]_vars

\* C4 witness: a second run has reached its exports with a narrowed view
\* that carries the chart columns.
C4_Witness ==
    /\ pc = "done"
    /\ Index(df_filtered) # Index(df)
    /\ Index(df_filtered) # {}
    /\ {"Faixa_Etaria", "Custo_Total_Mensal"} \subseteq df_filtered.columns
    /\ df_filtered.columns # df.columns

\* C5: a blank or unparseable cell in a date column does not fail the load:
\* a readable sheet loads with success = TRUE and all its rows, the cell is
\* null in the table, and Idade is null in a row without a birth date and a
\* number in every other row.
C5_DateCellsDegrade ==
    (pc # "load" /\ file.exists /\ file.readable) =>
      /\ success
      /\ Index(df) = DOMAIN file.rows
      /\ \A i \in Index(df) :
           /\ \A h \in {HNascimento, HContratacao, HDemissao} \cap file.header :
                file.rows[i][h].k # "date" => ~notna(df.rows[i][NormalizeColumn(h)])
           /\ HNascimento \in file.header =>
                IF file.rows[i][HNascimento].k = "date"
                THEN df.rows[i]["Idade"].k = "num"
                ELSE ~notna(df.rows[i]["Idade"])

\* C6: a loaded, non-empty table that lacks one of the optional columns
\* never ends a run of the script in an exception.
C6_MissingColumnNeverRaises ==
    (success /\ ~IsEmpty(df) /\ file.header # AllHeaders) => pc # "raised"

\* q occurs in s, letter case aside.
IsSubstringIgnoringCase(q, s) ==
    \E i \in 1..(Len(s) - Len(q) + 1) :
      \A j \in 1..Len(q) : Lower(q[j]) = Lower(s[i + j - 1])

\* C9: the name search keeps exactly the rows of the working view whose
\* name is present and contains the typed text, letter case aside; an empty
\* text keeps every row.
C9_NameSearch ==
    [][(pc = "search" /\ "Nome_Completo" \in df_filtered.columns) =>
         Index(df_filtered') =
           IF search_query'.v = << >> THEN Index(df_filtered)
           ELSE {i \in Index(df_filtered) :
                   /\ notna(df_filtered.rows[i]["Nome_Completo"])
                   /\ IsSubstringIgnoringCase(search_query'.v,
                                              df_filtered.rows[i]["Nome_Completo"].v)}]_vars

\* C10: the CSV and the spreadsheet written at the end of a run hold the
\* rows of the filtered view and carry neither the age-bucket column nor
\* the region-code column.
C10_ExportsWithoutTransientColumns ==
    pc = "done" =>
      /\ Len(excel_buffer.rows) = Cardinality(Index(df_filtered))
      /\ excel_buffer.columns \cap {"Faixa_Etaria", "Estado"} = {}
      /\ csv_bytes # Unset =>
           /\ Len(csv_bytes.rows) = Cardinality(Index(df_filtered))
           /\ csv_bytes.columns \cap {"Faixa_Etaria", "Estado"} = {}

\* C11: when the filters leave the view with zero rows, the KPIs are computed
\* without raising, every count is 0, the mean salary and the mean age are
\* "N/A" and the annual payroll is a zero amount ("N/A" only without the
\* salary column), and the run goes on through the charts to the table and
\* the downloads.
C11_EmptyViewDegrades ==
    [][IsEmpty(df_filtered) =>
         /\ pc = "kpis" =>
              /\ pc' = "charts"
              /\ kpis'.headcount_total = 0
              /\ kpis'.headcount_ativo = 0
              /\ kpis'.novas_contratacoes = 0
              /\ kpis'.total_demissoes = 0
              /\ kpis'.masculino_count = 0
              /\ kpis'.feminino_count = 0
              /\ kpis'.salario_medio_fmt = "N/A"
              /\ kpis'.idade_media_fmt = "N/A"
              /\ kpis'.folha_salarial_anual_fmt =
                   IF "Salario_Base" \in df_filtered.columns THEN "R$ 0,00" ELSE "N/A"
         /\ pc = "charts" => pc' = "table"
         /\ pc = "table" => (pc' = "done" /\ excel_buffer' # Unset)]_vars

=============================================================================
